---- MODULE Spec2Model ----
(***************************************************************************)
(* The AI provider fallback chain of the unified API route handler         *)
(* (GET /api/ai/search, /api/ai/recommendations, /api/ai/analysis,          *)
(* /api/ai/modifications).                                                  *)
(*                                                                         *)
(* Texts (a provider's generated text, a query string, a JSON document)    *)
(* are sequences of tokens.  A JavaScript value is written as the token    *)
(* sequence of its JSON.stringify form, so that JSON.parse, the two        *)
(* regular expressions of the handler and String.trim are computed on the  *)
(* text itself.                                                            *)
(***************************************************************************)
EXTENDS Integers, Sequences, FiniteSets, TLC

\* ------------------------------------------------------------------ tokens
\* One whitespace character (blank or line break).
WS == "_"
\* The double quote that opens and closes a JSON string.
QUOTE == "Q"
\* The three backquotes followed by the word json, and the three backquotes.
FenceOpen == "<fence>json"
FenceClose == "<fence>"
\* "name:" stands for the quoted member name followed by its colon.
KeyTokens ==
  {"searchTerm:", "diet:", "cuisine:", "maxReadyTime:", "number:",
   "includeIngredients:", "excludeIngredients:", "note:",
   "healthScore:", "score:", "explanation:", "nutritionAnalysis:",
   "summary:", "strengths:", "concerns:", "ingredientSubstitutions:",
   "allergens:", "allergen:", "severity:", "cookingDifficulty:", "level:",
   "tips:", "timeValidation:",
   "modifiedIngredients:", "modifiedInstructions:",
   "simplifiedIngredients:", "simplifiedInstructions:",
   "results:", "totalResults:", "offset:", "aiOptimized:", "originalQuery:",
   "searchParams:", "recipes:", "reason:", "context:", "error:", "message:"}
NumTokens == {ToString(n) : n \in 0..100}
LiteralTokens == {"null", "true", "false", "NaN"} \cup NumTokens
\* JSON.stringify writes NaN as null; every other literal parses as written.
JSONLiterals == LiteralTokens \ {"NaN"}

\* ------------------------------------------------------------ JSON.parse
RECURSIVE SkipWs(_, _)
\* The first position at or after i that holds no whitespace.
SkipWs(s, i) ==
  IF i <= Len(s) /\ s[i] = WS THEN SkipWs(s, i + 1) ELSE i

RECURSIVE CloseQuote(_, _)
\* The position of the quote that closes a string whose content starts at i,
\* or 0 when the text ends first.
CloseQuote(s, i) ==
  IF i > Len(s) THEN 0
  ELSE IF s[i] = QUOTE THEN i
  ELSE CloseQuote(s, i + 1)

RECURSIVE ParseValue(_, _)
RECURSIVE ParseMembers(_, _)
RECURSIVE ParseElements(_, _)
\* The position after the JSON value that starts at i, or 0 when no value
\* starts there.
ParseValue(s, i) ==
  IF i > Len(s) THEN 0
  ELSE IF s[i] \in JSONLiterals THEN i + 1
  ELSE IF s[i] = QUOTE THEN
    LET c == CloseQuote(s, i + 1) IN IF c = 0 THEN 0 ELSE c + 1
  ELSE IF s[i] = "{" THEN
    LET j == SkipWs(s, i + 1) IN
    IF j <= Len(s) /\ s[j] = "}" THEN j + 1 ELSE ParseMembers(s, j)
  ELSE IF s[i] = "[" THEN
    LET j == SkipWs(s, i + 1) IN
    IF j <= Len(s) /\ s[j] = "]" THEN j + 1 ELSE ParseElements(s, j)
  ELSE 0

\* The position after the closing brace of an object whose next member
\* starts at i, or 0.
ParseMembers(s, i) ==
  IF i > Len(s) \/ s[i] \notin KeyTokens THEN 0
  ELSE
    LET v == ParseValue(s, SkipWs(s, i + 1)) IN
    IF v = 0 THEN 0
    ELSE
      LET j == SkipWs(s, v) IN
      IF j > Len(s) THEN 0
      ELSE IF s[j] = "}" THEN j + 1
      ELSE IF s[j] = "," THEN ParseMembers(s, SkipWs(s, j + 1))
      ELSE 0

\* The position after the closing bracket of an array whose next element
\* starts at i, or 0.
ParseElements(s, i) ==
  LET v == ParseValue(s, i) IN
  IF v = 0 THEN 0
  ELSE
    LET j == SkipWs(s, v) IN
    IF j > Len(s) THEN 0
    ELSE IF s[j] = "]" THEN j + 1
    ELSE IF s[j] = "," THEN ParseElements(s, SkipWs(s, j + 1))
    ELSE 0

\* Whether JSON.parse accepts the text: one value, whitespace around it.
JSONValid(s) ==
  LET e == ParseValue(s, SkipWs(s, 1)) IN
  e # 0 /\ SkipWs(s, e) = Len(s) + 1

RECURSIVE Canon(_, _, _)
\* The text from position i on with the whitespace outside strings removed:
\* two JSON texts denote the same value when their canonical forms agree.
Canon(s, i, inStr) ==
  IF i > Len(s) THEN <<>>
  ELSE IF s[i] = QUOTE THEN <<s[i]>> \o Canon(s, i + 1, ~inStr)
  ELSE IF s[i] = WS /\ ~inStr THEN Canon(s, i + 1, inStr)
  ELSE <<s[i]>> \o Canon(s, i + 1, inStr)

\* JSON.parse: ok is FALSE when it throws a SyntaxError.
JSONParse(s) ==
  IF JSONValid(s) THEN [ok |-> TRUE, val |-> Canon(s, 1, FALSE)]
  ELSE [ok |-> FALSE, val |-> <<>>]

\* The JavaScript null, which is also what JSON.parse("null") returns.
JSNull == <<"null">>
\* The values a JavaScript condition takes as false.
Falsy(v) == v \in {<<"null">>, <<"false">>, <<"0">>, <<"NaN">>, <<QUOTE, QUOTE>>}

\* Position i of a text lies inside a string literal.
InString(v, i) == Cardinality({k \in 1..(i - 1) : v[k] = QUOTE}) % 2 = 1
\* How many objects and arrays are open at position i of a text.
Depth(v, i) ==
  Cardinality({k \in 1..(i - 1) : v[k] \in {"{", "["} /\ ~InString(v, k)})
    - Cardinality({k \in 1..(i - 1) : v[k] \in {"}", "]"} /\ ~InString(v, k)})

\* Object.keys of a parsed value (empty for a value that is no object): the
\* member names at nesting depth 1 of its canonical text.
TopKeys(v) ==
  IF Len(v) > 0 /\ v[1] = "{"
  THEN {v[i] : i \in {j \in 1..Len(v) :
                        v[j] \in KeyTokens /\ ~InString(v, j) /\ Depth(v, j) = 1}}
  ELSE {}

\* ------------------------------------------------------ String.prototype
RECURSIVE TrimEnd(_)
TrimEnd(s) ==
  IF Len(s) > 0 /\ s[Len(s)] = WS THEN TrimEnd(SubSeq(s, 1, Len(s) - 1)) ELSE s

\* String.trim().
Trim(s) ==
  LET b == SkipWs(s, 1) IN TrimEnd(SubSeq(s, b, Len(s)))

\* The least position from from on whose token is in set, or 0.
FirstIndex(s, set, from) ==
  IF \E i \in from..Len(s) : s[i] \in set
  THEN CHOOSE i \in from..Len(s) :
         s[i] \in set /\ \A j \in from..(i - 1) : s[j] \notin set
  ELSE 0

\* The greatest position whose token is in set, or 0.
LastIndex(s, set) ==
  IF \E i \in 1..Len(s) : s[i] \in set
  THEN CHOOSE i \in 1..Len(s) :
         s[i] \in set /\ \A j \in (i + 1)..Len(s) : s[j] \notin set
  ELSE 0

\* aiContent.match(fence pattern: json after the opening backquotes, a lazy
\* group, whitespace skipped on both sides of it): the first opening fence and
\* the nearest three backquotes after it (those of a second opening fence
\* included); g1 is the group, without the whitespace around it, m0 the
\* whole match.
FenceMatch(s) ==
  LET o == FirstIndex(s, {FenceOpen}, 1)
      c == IF o = 0 THEN 0 ELSE FirstIndex(s, {FenceOpen, FenceClose}, o + 1)
  IN IF o = 0 \/ c = 0
     THEN [matched |-> FALSE, g1 |-> <<>>, m0 |-> <<>>]
     ELSE [matched |-> TRUE,
           g1 |-> Trim(SubSeq(s, o + 1, c - 1)),
           m0 |-> SubSeq(s, o, c - 1) \o <<FenceClose>>]

\* aiContent.match(/{[\s\S]*}/): from the first opening brace to the last
\* closing brace after it.
BraceMatch(s) ==
  LET o == FirstIndex(s, {"{"}, 1)
      c == LastIndex(s, {"}"})
  IN IF o = 0 \/ c <= o
     THEN [matched |-> FALSE, m0 |-> <<>>]
     ELSE [matched |-> TRUE, m0 |-> SubSeq(s, o, c)]

\* ------------------------------------------------------------------ state
\* How many times the same request is sent in one behaviour.
MaxRequests == 2

VARIABLES
  request,      \* the endpoint and the parameters of the request being served
  env,          \* the names of the environment keys that are set
  pc,           \* where the handler is suspended: start, awaitRecipe,
                \* awaitProvider, awaitSearch, done
  recipeInfo,   \* what getRecipeInformation returned
  fetched,      \* how getRecipeInformation settled: none, rejected, missing, found
  result,       \* searchParams / aiResponseData / analysisData / modificationData
  response,     \* the response sent (status 0: none yet)
  calls,        \* the outbound calls issued so far, in order
  inflight,     \* the outbound calls issued and not yet completed
  failed,       \* the providers whose attempt left the result empty
  firstOk,      \* the first 2xx attempt from whose text a value was extracted
  firstValid,   \* the first 2xx attempt whose text is the JSON of an object
  lastKind,     \* how the last completed provider call ended
  lastText,     \* the generated text of the last completed provider call
  viaFallback,  \* the chain ended without a result
  reqNo,        \* the number of the request being served
  memo,         \* the fallback result of an earlier, identical request
  \* the browser's search cache (cacheStorage.ts)
  localStorage, \* the search-cache entry stored under each key
  now,          \* Date.now(), in days
  written,      \* the cached keys from the oldest to the newest timestamp
  otherUsed,    \* the bytes of localStorage that other keys of the origin hold
  recency,      \* the cached keys from the least to the most recently used
  lastOp,       \* the last cache operation and the key it was called with
  \* the database and the requests that run against it (POST, PUT, DELETE)
  db,           \* the rows of each table, and what the image host received
  procs,        \* every request's operation, position, locals and response
  \* the ImageUploader component
  file,         \* the file state
  preview,      \* the preview state: the file whose data URL it holds
  readers,      \* the files whose FileReader has not completed
  uploading     \* the file of the pending upload mutation

cacheVars == <<localStorage, now, written, otherUsed, recency, lastOp>>
storeVars == <<db, procs>>
uploaderVars == <<file, preview, readers, uploading>>
\* What a request to an ai route leaves alone.
elsewhere == <<cacheVars, storeVars, uploaderVars>>
aiVars ==
  <<request, env, pc, recipeInfo, fetched, result, response, calls, inflight, failed,
    firstOk, firstValid, lastKind, lastText, viaFallback, reqNo, memo>>
vars == <<aiVars, elsewhere>>

\* --------------------------------------------------------------- requests
\* What URLSearchParams.get returns for a parameter the URL does not carry.
Absent == <<"<absent>">>
Str(s) == <<QUOTE>> \o s \o <<QUOTE>>
\* value || fallback on strings: the absent and the empty string are falsy.
OrElse(s, d) == IF s = Absent \/ s = <<>> THEN d ELSE s
\* value?.trim() taken as a condition.
NonBlank(s) == s # Absent /\ Trim(s) # <<>>

Endpoints == {"search", "recommendations", "analysis", "modifications"}
EnvKeys ==
  {"OPENROUTER_API_KEY", "GOOGLE_GEMINI_API_KEY", "GROQ_LLAMA_API_KEY",
   "HUGGING_FACE_INFERENCE_API_KEY"}

NoParams ==
  [query |-> Absent, ingredients |-> Absent, diet |-> Absent,
   cuisine |-> Absent, maxTime |-> Absent, excludeIngredients |-> Absent,
   recipeId |-> Absent, type |-> Absent]

Soup == <<"s", "o", "u", "p">>
SearchQueries == {Absent, <<"a", "b">>, <<WS, "a", "b", WS>>, Soup, <<WS>> \o Soup \o <<WS>>}
RecommendationFilters ==
  {[diet |-> Absent, cuisine |-> Absent, maxTime |-> Absent, excludeIngredients |-> Absent],
   [diet |-> <<"vegan">>, cuisine |-> Absent, maxTime |-> Absent, excludeIngredients |-> Absent],
   [diet |-> Absent, cuisine |-> <<"thai">>, maxTime |-> <<"30">>, excludeIngredients |-> Absent],
   [diet |-> <<"vegan">>, cuisine |-> <<"thai">>, maxTime |-> <<"x">>, excludeIngredients |-> <<"nuts">>]}

\* The JSON body of a request, and the body of a request that carries none.
NoBody ==
  [query |-> Absent, ingredients |-> Absent, diet |-> Absent,
   cuisine |-> Absent, maxTime |-> Absent, excludeIngredients |-> Absent,
   recipeId |-> Absent, type |-> Absent]

\* The query strings of the model: each endpoint with the parameters it reads.
QueryStrings ==
  {[NoParams EXCEPT !.query = q] @@ [endpoint |-> "search"] : q \in SearchQueries}
  \cup
  {[NoParams EXCEPT !.query = q, !.ingredients = i, !.diet = f.diet,
                    !.cuisine = f.cuisine, !.maxTime = f.maxTime,
                    !.excludeIngredients = f.excludeIngredients]
     @@ [endpoint |-> "recommendations"] :
     q \in {Absent, <<WS>>, <<WS, "quick vegan dinner">>},
     i \in {Absent, <<"e", "g", "g", WS>>},
     f \in RecommendationFilters}
  \cup
  {[NoParams EXCEPT !.recipeId = r] @@ [endpoint |-> "analysis"] :
     r \in {Absent, <<"x">>, <<"4", "2">>, <<"-", "5">>, <<WS>>}}
  \cup
  {[NoParams EXCEPT !.recipeId = r, !.type = t] @@ [endpoint |-> "modifications"] :
     r \in {Absent, <<"x">>, <<"4", "2">>, <<"1", ".", "5">>},
     t \in {Absent, <<"dietary">>, <<"simplify">>, <<"scale">>}}

\* The requests the GET handler serves.
Requests == {q @@ [method |-> "GET", body |-> NoBody] : q \in QueryStrings}
\* The same endpoints sent a POST whose JSON body carries the parameters.
PostRequests ==
  {[NoParams EXCEPT !.query = q] @@
     [endpoint |-> "recommendations", method |-> "POST",
      body |-> [NoBody EXCEPT !.query = b]] :
     q \in {Absent, Soup}, b \in {Absent, <<"quick vegan dinner">>}}
  \cup
  {NoParams @@ [endpoint |-> "search", method |-> "POST",
                body |-> [NoBody EXCEPT !.query = Soup]],
   NoParams @@ [endpoint |-> "analysis", method |-> "POST",
                body |-> [NoBody EXCEPT !.recipeId = <<"4", "2">>]],
   NoParams @@ [endpoint |-> "modifications", method |-> "POST",
                body |-> [NoBody EXCEPT !.recipeId = <<"4", "2">>,
                                        !.type = <<"simplify">>]]}

\* The parameters ai/recommendations works with: those of the query string,
\* each replaced by the body's when the method is POST and the body's is truthy.
BodyOverQuery(req) ==
  IF req.endpoint = "recommendations" /\ req.method = "POST"
  THEN [req EXCEPT
          !.query = OrElse(req.body.query, OrElse(req.query, <<>>)),
          !.ingredients = OrElse(req.body.ingredients, req.ingredients),
          !.diet = OrElse(req.body.diet, req.diet),
          !.cuisine = OrElse(req.body.cuisine, req.cuisine),
          !.maxTime = OrElse(req.body.maxTime, req.maxTime),
          !.excludeIngredients =
            OrElse(req.body.excludeIngredients, req.excludeIngredients)]
  ELSE req

\* isNaN(Number(s)) is false: Number strips white space, takes the empty
\* string for 0 and otherwise reads an optional sign and a decimal literal
\* (the characters of the requests hold no exponent, radix prefix or Infinity).
Digits == {"0", "1", "2", "3", "4", "5", "6", "7", "8", "9"}
NumericString(s) ==
  LET t == Trim(s)
      body == IF t # <<>> /\ t[1] \in {"+", "-"} THEN Tail(t) ELSE t
  IN \/ t = <<>>
     \/ /\ \A k \in 1..Len(body) : body[k] \in Digits \cup {"."}
        /\ Cardinality({k \in 1..Len(body) : body[k] = "."}) <= 1
        /\ \E k \in 1..Len(body) : body[k] \in Digits

\* The least number of characters of a search query (after trim).
MinQueryLength == 3

\* The 400 message of the endpoint's parameter validation, or <<>> when the
\* parameters pass.
ParamError(req) ==
  CASE req.endpoint = "search" ->
         IF req.query = Absent \/ req.query = <<>>
            \/ Len(Trim(req.query)) < MinQueryLength
         THEN <<"Query must be at least 3 characters">> ELSE <<>>
    [] req.endpoint = "recommendations" ->
         IF ~NonBlank(req.query) /\ ~NonBlank(req.ingredients)
         THEN <<"Either query or ingredients parameter is required">> ELSE <<>>
    [] req.endpoint = "analysis" ->
         IF req.recipeId = Absent \/ req.recipeId = <<>>
            \/ ~NumericString(req.recipeId)
         THEN <<"Valid recipeId parameter is required">> ELSE <<>>
    [] req.endpoint = "modifications" ->
         IF req.recipeId = Absent \/ req.recipeId = <<>>
            \/ ~NumericString(req.recipeId)
         THEN <<"Valid recipeId parameter is required">>
         ELSE IF req.type \notin {<<"dietary">>, <<"simplify">>}
         THEN <<"Valid type parameter required (dietary or simplify)">>
         ELSE <<>>

KeysMissingNever(endpoint, env0) == FALSE
\* The configuration check: none of the three keys the endpoint reads is set.
KeysMissing(endpoint, env0) ==
  IF endpoint \in {"search", "recommendations"}
  THEN env0 \cap {"OPENROUTER_API_KEY", "GOOGLE_GEMINI_API_KEY", "GROQ_LLAMA_API_KEY"} = {}
  ELSE env0 \cap {"OPENROUTER_API_KEY", "GOOGLE_GEMINI_API_KEY",
                 "HUGGING_FACE_INFERENCE_API_KEY"} = {}

\* -------------------------------------------------------------- providers
Providers == {"claude", "gpt", "gemini", "groq"}
ChainReordered(endpoint) ==
  IF endpoint \in {"search", "recommendations"}
  THEN <<"claude", "gemini", "gpt", "groq">>
  ELSE <<"claude", "gemini", "gpt">>
\* The order of the provider blocks in each handler.
Chain(endpoint) ==
  IF endpoint \in {"search", "recommendations"}
  THEN <<"claude", "gpt", "gemini", "groq">>
  ELSE <<"claude", "gpt", "gemini">>
ChainIndex(endpoint, p) ==
  IF \E i \in 1..Len(Chain(endpoint)) : Chain(endpoint)[i] = p
  THEN CHOOSE i \in 1..Len(Chain(endpoint)) : Chain(endpoint)[i] = p
  ELSE 0
\* The environment variable whose value guards the provider's block.
KeyOf(p) ==
  CASE p \in {"claude", "gpt"} -> "OPENROUTER_API_KEY"
    [] p = "gemini" -> "GOOGLE_GEMINI_API_KEY"
    [] p = "groq" -> "GROQ_LLAMA_API_KEY"

\* ------------------------------------------------------------- extraction
\* try JSON.parse(aiContent), and in its catch the brace pattern followed by
\* an unguarded JSON.parse whose error the provider block's catch takes:
\* the value assigned, or the null the variable keeps.
ExtractDirectThenBrace(aiContent) ==
  LET direct == JSONParse(aiContent)
      m == BraceMatch(aiContent)
      inner == JSONParse(m.m0)
  IN IF direct.ok THEN direct.val
     ELSE IF m.matched /\ inner.ok THEN inner.val
     ELSE JSNull

\* jsonMatch = fence match || brace match, then
\* JSON.parse(jsonMatch ? jsonMatch[1] || jsonMatch[0] : aiContent) in a try
\* whose catch is empty.
ExtractFenceOrBrace(aiContent) ==
  LET f == FenceMatch(aiContent)
      b == BraceMatch(aiContent)
      src == IF f.matched THEN (IF f.g1 # <<>> THEN f.g1 ELSE f.m0)
             ELSE IF b.matched THEN b.m0
             ELSE aiContent
      parsed == JSONParse(src)
  IN IF parsed.ok THEN parsed.val ELSE JSNull

\* The extraction of each provider block.
Extract(endpoint, p, aiContent) ==
  IF endpoint = "search" /\ p \in {"claude", "gpt"}
  THEN ExtractDirectThenBrace(aiContent)
  ELSE ExtractFenceOrBrace(aiContent)

\* An object that follows the schema the endpoint's prompt asks for.
SchemaObject(req) ==
  CASE req.endpoint = "search" ->
         <<"{", "searchTerm:">> \o Str(<<"soup">>) \o <<",", WS, "diet:">>
           \o Str(<<"vegan">>) \o <<"}">>
    [] req.endpoint = "recommendations" ->
         <<"{", "searchTerm:">> \o Str(<<"soup">>) \o <<",", WS, "number:", "1", "}">>
    [] req.endpoint = "analysis" ->
         <<"{", "healthScore:", "{", "score:", "70", "}", ",",
           "nutritionAnalysis:", "{", "}", ",",
           "ingredientSubstitutions:", "[", "]", ",",
           "allergens:", "[", "]", ",",
           "cookingDifficulty:", "{", "level:">> \o Str(<<"beginner">>) \o <<"}", ",",
           "timeValidation:", "{", "}", "}">>
    [] req.endpoint = "modifications" /\ req.type = <<"dietary">> ->
         <<"{", "modifiedIngredients:", "[", "]", ",", "modifiedInstructions:">>
           \o Str(<<"Bake.">>) \o <<",", "explanation:">> \o Str(<<"swap">>) \o <<"}">>
    [] OTHER ->
         <<"{", "simplifiedIngredients:", "[", "]", ",", "simplifiedInstructions:">>
           \o Str(<<"Bake.">>) \o <<",", "tips:", "[", "]", "}">>

\* The generated texts a provider answers with.
ProviderTexts(req) ==
  LET o == SchemaObject(req)
      note == <<"{", "note:", QUOTE, FenceOpen, WS, "x", WS, FenceClose, QUOTE, "}">>
  IN
  {o,
   <<FenceOpen, WS>> \o o \o <<WS, FenceClose>>,
   <<"Sure,", WS, "here", WS>> \o o \o <<WS, "Enjoy!">>,
   <<"Sorry,", WS, "no.">>,
   <<"null">>,
   <<"7">>,
   note,
   <<FenceOpen, WS>> \o note \o <<WS, FenceClose>>,
   o \o <<WS, "or", WS>> \o o,
   <<FenceOpen, WS>> \o o \o <<WS, FenceClose, WS, "or", WS>> \o o,
   <<"{", "searchTerm:">>}

OutcomesNever(req) == {}
\* How a provider call ends: fetch rejects, a status outside 2xx, a 2xx whose
\* body response.json() rejects, a 2xx body without generated text, a 2xx
\* body with text.
OutcomeKinds == {"throw", "non2xx", "badbody", "nocontent", "text"}
Outcomes(req) ==
  {[kind |-> k, text |-> <<>>] : k \in OutcomeKinds \ {"text"}}
  \cup {[kind |-> "text", text |-> t] : t \in ProviderTexts(req)}

\* choices?.[0]?.message?.content || "{}" (candidates ... text for Gemini).
Content(outcome) ==
  IF outcome.kind = "nocontent" THEN <<"{", "}">> ELSE outcome.text

\* One provider block: the variable after it, given the variable before it.
\* Nothing is assigned when fetch or response.json() rejects, when the status
\* is outside 2xx or when JSON.parse throws.
AfterAttempt(endpoint, p, before, outcome) ==
  IF outcome.kind \in {"throw", "non2xx", "badbody"} THEN before
  ELSE LET v == Extract(endpoint, p, Content(outcome)) IN
       IF v # JSNull THEN v ELSE before

\* ---------------------------------------------------------------- recipes
\* The fields of a recipe record the handlers read after the chain (found:
\* getRecipeInformation resolved to a record).
NoRecipe ==
  [found |-> FALSE, healthScore |-> 0, veryHealthy |-> FALSE, glutenFree |-> FALSE,
   dairyFree |-> FALSE, readyInMinutes |-> 0, instructions |-> <<>>]
RecipesFor(endpoint) ==
  IF endpoint = "analysis"
  THEN {[NoRecipe EXCEPT !.found = TRUE, !.healthScore = h.score, !.veryHealthy = h.very,
                         !.glutenFree = g, !.dairyFree = d,
                         !.readyInMinutes = m] :
          h \in {[score |-> 0, very |-> FALSE], [score |-> 80, very |-> TRUE]},
          g \in BOOLEAN, d \in BOOLEAN, m \in {0, 30, 60, 75}}
  ELSE {[NoRecipe EXCEPT !.found = TRUE, !.instructions = i] : i \in {<<>>, <<"Bake.">>}}

\* ---------------------------------------------------- fallback synthesis
DefaultNumber == 10
DefaultHealthScore == 50
AdvancedMinutes == 60
IntermediateMinutes == 30

\* parseInt(value, 10) of a parameter that is all digits or not a number.
ParseInt(s) == IF Len(s) = 1 /\ s[1] \in NumTokens THEN s[1] ELSE "NaN"

\* { searchTerm: query.trim() }
FallbackSearch(req) ==
  <<"{", "searchTerm:">> \o Str(Trim(req.query)) \o <<"}">>

FallbackRecommendationsUntrimmed(req) ==
  <<"{", "searchTerm:">> \o Str(OrElse(req.query, <<"recipes">>))
    \o <<",", "number:", ToString(DefaultNumber), ",", "diet:">>
    \o (IF req.diet = Absent THEN <<"null">> ELSE Str(req.diet)) \o <<"}">>
\* { searchTerm, number: 10 } and the filters the request carries.
FallbackRecommendations(req) ==
  LET query == OrElse(req.query, <<>>)
      term == OrElse(Trim(query),
                OrElse(IF req.ingredients = Absent THEN Absent
                       ELSE Trim(req.ingredients), <<"recipes">>))
      opt(key, s) == IF s = Absent \/ s = <<>> THEN <<>> ELSE <<",", key>> \o Str(s)
  IN <<"{", "searchTerm:">> \o Str(term)
       \o <<",", "number:", ToString(DefaultNumber)>>
       \o opt("diet:", req.diet)
       \o opt("cuisine:", req.cuisine)
       \o (IF req.maxTime = Absent \/ req.maxTime = <<>> THEN <<>>
           ELSE <<",", "maxReadyTime:", ParseInt(req.maxTime)>>)
       \o opt("includeIngredients:", req.ingredients)
       \o opt("excludeIngredients:", req.excludeIngredients)
       \o <<"}">>

DifficultyLevelInclusive(minutes) ==
  IF minutes # 0 /\ minutes >= AdvancedMinutes THEN "advanced"
  ELSE IF minutes # 0 /\ minutes >= IntermediateMinutes THEN "intermediate"
  ELSE "beginner"
\* readyInMinutes && readyInMinutes > 60 ? "advanced" : readyInMinutes &&
\* readyInMinutes > 30 ? "intermediate" : "beginner"
DifficultyLevel(minutes) ==
  IF minutes # 0 /\ minutes > AdvancedMinutes THEN "advanced"
  ELSE IF minutes # 0 /\ minutes > IntermediateMinutes THEN "intermediate"
  ELSE "beginner"

\* The rule table of the analysis fallback.
FallbackAnalysis(rinfo) ==
  LET score == IF rinfo.healthScore # 0 THEN rinfo.healthScore
               ELSE DefaultHealthScore
      strengths == IF rinfo.veryHealthy
                   THEN <<"[">> \o Str(<<"Recipe is marked as very healthy">>) \o <<"]">>
                   ELSE <<"[", "]">>
      entry(a) == <<"{", "allergen:">> \o Str(<<a>>)
                    \o <<",", "severity:">> \o Str(<<"medium">>) \o <<"}">>
      gluten == IF ~rinfo.glutenFree THEN entry("gluten") ELSE <<>>
      dairy == IF ~rinfo.dairyFree THEN entry("dairy") ELSE <<>>
      sep == IF gluten # <<>> /\ dairy # <<>> THEN <<",">> ELSE <<>>
      level == DifficultyLevel(rinfo.readyInMinutes)
  IN <<"{", "healthScore:", "{", "score:", ToString(score), ",", "explanation:">>
       \o Str(<<"Health score based on recipe nutritional data">>) \o <<"}", ",",
          "nutritionAnalysis:", "{", "summary:">>
       \o Str(<<"Nutritional analysis based on available recipe data">>)
       \o <<",", "strengths:">> \o strengths \o <<",", "concerns:", "[", "]", "}", ",",
          "allergens:", "[">> \o gluten \o sep \o dairy \o <<"]", ",",
          "cookingDifficulty:", "{", "level:">> \o Str(<<level>>)
       \o <<",", "explanation:">> \o Str(<<"Difficulty estimated based on cooking time">>)
       \o <<",", "tips:", "[", "]", "}", "}">>

\* The two fixed objects of the modification fallback.
FallbackModifications(req, rinfo) ==
  IF req.type = <<"dietary">>
  THEN <<"{", "modifiedIngredients:", "[", "]", ",", "modifiedInstructions:">>
         \o Str(rinfo.instructions) \o <<",", "explanation:">>
         \o Str(<<"Dietary conversion not available. Please check recipe ingredients manually.">>)
         \o <<"}">>
  ELSE <<"{", "simplifiedIngredients:", "[", "]", ",", "simplifiedInstructions:">>
         \o Str(rinfo.instructions) \o <<",", "tips:", "[">>
         \o Str(<<"Follow the original recipe instructions carefully.">>) \o <<"]", "}">>

FallbackStamped(req, rinfo) == <<"{", "generatedAt:", ToString(reqNo), "}">>
\* What each handler builds when no provider produced a result.
Fallback(req, rinfo) ==
  CASE req.endpoint = "search" -> FallbackSearch(req)
    [] req.endpoint = "recommendations" -> FallbackRecommendations(req)
    [] req.endpoint = "analysis" -> FallbackAnalysis(rinfo)
    [] req.endpoint = "modifications" -> FallbackModifications(req, rinfo)

KeepWithoutFallback(data, fallback) == data
\* if (!data) data = fallback
Synthesize(data, fallback) == IF Falsy(data) THEN fallback ELSE data

\* -------------------------------------------------------------- responses
EscapedQuote == "\\Q"
NoResponse == [status |-> 0, body |-> <<>>]
\* jsonResponse({ error }, status)
ErrorResponse(status, msg) ==
  [status |-> status, body |-> <<"{", "error:">> \o Str(msg) \o <<"}">>]
\* The catch of the endpoint's try block: 500 with the error's message.
CaughtResponse(msg) ==
  [status |-> 500,
   body |-> <<"{", "error:">> \o Str(msg) \o <<",", "message:">>
              \o Str(<<"<error message>">>) \o <<"}">>]

RECURSIVE JoinComma(_)
JoinComma(items) ==
  IF Len(items) = 0 THEN <<>>
  ELSE IF Len(items) = 1 THEN <<items[1]>>
  ELSE <<items[1], ",">> \o JoinComma(Tail(items))

RECURSIVE TopValueFrom(_, _, _, _, _)
\* The first token of the value of member key at nesting depth 1, or
\* "undefined".
TopValueFrom(v, key, i, depth, inStr) ==
  IF i > Len(v) THEN "undefined"
  ELSE IF v[i] = QUOTE THEN TopValueFrom(v, key, i + 1, depth, ~inStr)
  ELSE IF inStr THEN TopValueFrom(v, key, i + 1, depth, inStr)
  ELSE IF v[i] \in {"{", "["} THEN TopValueFrom(v, key, i + 1, depth + 1, inStr)
  ELSE IF v[i] \in {"}", "]"} THEN TopValueFrom(v, key, i + 1, depth - 1, inStr)
  ELSE IF v[i] = key /\ depth = 1 /\ i < Len(v) THEN v[i + 1]
  ELSE TopValueFrom(v, key, i + 1, depth, inStr)

\* (typeof data.number === "number" ? data.number : null) || 10
RequestedNumber(data) ==
  LET t == IF Len(data) > 0 /\ data[1] = "{"
           THEN TopValueFrom(data, "number:", 1, 0, FALSE) ELSE "undefined"
  IN IF t \in NumTokens /\ t # "0"
     THEN CHOOSE n \in 0..100 : ToString(n) = t
     ELSE DefaultNumber

\* What searchRecipes resolves to (the ids of the recipes found) or that it
\* rejects.
SearchOutcomes ==
  {[threw |-> TRUE, hits |-> <<>>],
   [threw |-> FALSE, hits |-> <<>>],
   [threw |-> FALSE, hits |-> <<"11", "12">>]}

SearchBodyMarked(req, data, hits) ==
  <<"{", "results:", "[">> \o JoinComma(hits) \o <<"]", ",",
    "totalResults:", ToString(Len(hits)), ",", "offset:", "0", ",",
    "number:", ToString(Len(hits)), ",", "aiOptimized:",
    IF data = FallbackSearch(req) THEN "false" ELSE "true", ",",
    "originalQuery:">> \o Str(Trim(req.query)) \o <<",", "searchParams:">>
    \o data \o <<"}">>
\* The body of the 200 response of ai/search.
SearchBody(req, data, hits) ==
  <<"{", "results:", "[">> \o JoinComma(hits) \o <<"]", ",",
    "totalResults:", ToString(Len(hits)), ",", "offset:", "0", ",",
    "number:", ToString(Len(hits)), ",", "aiOptimized:", "true", ",",
    "originalQuery:">> \o Str(Trim(req.query)) \o <<",", "searchParams:">>
    \o data \o <<"}">>

\* recommendationContext: one line for each parameter that is not blank.
RecommendationContext(req) ==
  LET line(label, s) == IF NonBlank(s) THEN <<label>> \o Trim(s) \o <<WS>> ELSE <<>>
  IN (IF NonBlank(req.query)
      THEN <<"User request: ", EscapedQuote>> \o Trim(req.query) \o <<EscapedQuote, WS>>
      ELSE <<>>)
     \o line("Available ingredients: ", req.ingredients)
     \o line("Dietary preference: ", req.diet)
     \o line("Cuisine preference: ", req.cuisine)
     \o line("Maximum cooking time: ", req.maxTime)
     \o line("Exclude ingredients: ", req.excludeIngredients)

\* The body of the 200 response of ai/recommendations.
RecommendationsBody(req, data, hits) ==
  LET number == RequestedNumber(data)
      shown == SubSeq(hits, 1, IF number < Len(hits) THEN number ELSE Len(hits))
      reason == IF NonBlank(req.query)
                THEN <<"Recommended based on: ", EscapedQuote>> \o Trim(req.query)
                       \o <<EscapedQuote>>
                ELSE IF NonBlank(req.ingredients)
                THEN <<"Recommended based on available ingredients: ">>
                       \o Trim(req.ingredients)
                ELSE <<"Personalized recommendations for you">>
  IN <<"{", "recipes:", "[">> \o JoinComma(shown) \o <<"]", ",", "reason:">>
       \o Str(reason) \o <<",", "context:">>
       \o Str(Trim(RecommendationContext(req))) \o <<"}">>

\* ------------------------------------------------------------ initial state
NoFirstOk == [set |-> FALSE, provider |-> "none", value |-> <<>>]
NoMemo == [set |-> FALSE, recipeInfo |-> NoRecipe, result |-> <<>>]

\* The search cache is empty.
SearchKeys == {"soup_1", "soup_2", "stew_1"}
NoEntry == [present |-> FALSE, size |-> 0, timestamp |-> 0, expiry |-> 0]
NoOp == [op |-> "none", cacheKey |-> "none"]
CacheIdle ==
  /\ localStorage = [k \in SearchKeys |-> NoEntry]
  /\ now = 0
  /\ written = <<>>
  /\ otherUsed = 0
  /\ recency = <<>>
  /\ lastOp = NoOp
\* No request runs against the database, which is empty.
StoreIdle ==
  /\ db = <<>>
  /\ procs = <<>>
\* The ImageUploader as it is mounted.
NoFile == "null"
UploaderIdle ==
  /\ file = NoFile
  /\ preview = NoFile
  /\ readers = {}
  /\ uploading = NoFile

\* Nothing of the request has run yet.
Idle ==
  /\ pc = "start"
  /\ recipeInfo = NoRecipe
  /\ fetched = "none"
  /\ result = JSNull
  /\ response = NoResponse
  /\ calls = <<>>
  /\ inflight = {}
  /\ failed = {}
  /\ firstOk = NoFirstOk
  /\ firstValid = NoFirstOk
  /\ lastKind = "none"
  /\ lastText = <<>>
  /\ viaFallback = FALSE
  /\ reqNo = 1
  /\ memo = NoMemo
Init ==
  /\ request \in Requests
  /\ env \in SUBSET EnvKeys
  /\ Idle
  /\ CacheIdle /\ StoreIdle /\ UploaderIdle

\* ------------------------------------------------------------ the handler
NextProviderRetry(endpoint, afterIdx, data, env0) ==
  LET ok(i) == Falsy(data) /\ KeyOf(Chain(endpoint)[i]) \in env0
      later == {i \in afterIdx..Len(Chain(endpoint)) : i >= 1 /\ ok(i)}
  IN IF later = {} THEN 0
     ELSE CHOOSE i \in later : \A j \in later : i <= j
\* The least position after afterIdx of a provider block whose condition
\* (!data && key) holds, or 0.
NextProvider(endpoint, afterIdx, data, env0) ==
  LET ok(i) == Falsy(data) /\ KeyOf(Chain(endpoint)[i]) \in env0
      later == {i \in (afterIdx + 1)..Len(Chain(endpoint)) : ok(i)}
  IN IF later = {} THEN 0
     ELSE CHOOSE i \in later : \A j \in later : i <= j

IssuedFanOut(endpoint, afterIdx, data, env0) ==
  SelectSeq(SubSeq(Chain(endpoint), afterIdx + 1, Len(Chain(endpoint))),
            LAMBDA q : Falsy(data) /\ KeyOf(q) \in env0)
\* The provider calls the handler issues before it suspends again: the one
\* fetch of the next provider block it enters.
Issued(endpoint, afterIdx, data, env0) ==
  LET n == NextProvider(endpoint, afterIdx, data, env0) IN
  IF n = 0 THEN <<>> ELSE <<Chain(endpoint)[n]>>

Range(seq) == {seq[i] : i \in 1..Len(seq)}

\* The end of the chain: the fallback when no provider produced a result,
\* then the recipe search (search, recommendations) or the 200 response.
Finish(data, rinfo, callsNow, inflightNow) ==
  LET final == Synthesize(data, Fallback(request, rinfo)) IN
  /\ result' = final
  /\ viaFallback' = Falsy(data)
  /\ IF request.endpoint \in {"search", "recommendations"}
     THEN /\ pc' = "awaitSearch"
          /\ calls' = Append(callsNow, "searchRecipes")
          /\ inflight' = inflightNow \cup {"searchRecipes"}
          /\ response' = NoResponse
     ELSE /\ pc' = "done"
          /\ calls' = callsNow
          /\ inflight' = inflightNow
          /\ response' = [status |-> 200, body |-> final]

ContinueGivesUp(afterIdx, data, rinfo, callsNow, inflightNow) ==
  LET iss == IF afterIdx = 0 THEN Issued(request.endpoint, afterIdx, data, env)
             ELSE <<>> IN
  IF iss # <<>>
  THEN /\ pc' = "awaitProvider"
       /\ calls' = callsNow \o iss
       /\ inflight' = inflightNow \cup Range(iss)
       /\ result' = data
       /\ viaFallback' = FALSE
       /\ response' = NoResponse
  ELSE Finish(data, rinfo, callsNow, inflightNow)
\* The handler from the position after provider block afterIdx up to its
\* next await.
Continue(afterIdx, data, rinfo, callsNow, inflightNow) ==
  LET iss == Issued(request.endpoint, afterIdx, data, env) IN
  IF iss # <<>>
  THEN /\ pc' = "awaitProvider"
       /\ calls' = callsNow \o iss
       /\ inflight' = inflightNow \cup Range(iss)
       /\ result' = data
       /\ viaFallback' = FALSE
       /\ response' = NoResponse
  ELSE Finish(data, rinfo, callsNow, inflightNow)

\* The request arrives: parameter validation, the configuration check, then
\* the recipe fetch (analysis, modifications) or the chain.
Receive ==
  /\ pc = "start"
  /\ UNCHANGED elsewhere
  /\ request.method = "GET"
  /\ request' = BodyOverQuery(request)
  /\ UNCHANGED <<env, fetched, failed, firstOk, firstValid, lastKind,
                 lastText, reqNo, memo>>
  /\ IF ParamError(request') # <<>>
     THEN /\ pc' = "done"
          /\ response' = ErrorResponse(400, ParamError(request'))
          /\ UNCHANGED <<recipeInfo, result, calls, inflight, viaFallback>>
     ELSE IF KeysMissing(request.endpoint, env)
     THEN /\ pc' = "done"
          /\ response' = ErrorResponse(500, <<"No AI API keys configured">>)
          /\ UNCHANGED <<recipeInfo, result, calls, inflight, viaFallback>>
     ELSE IF request.endpoint \in {"analysis", "modifications"}
     THEN /\ pc' = "awaitRecipe"
          /\ calls' = Append(calls, "getRecipeInformation")
          /\ inflight' = inflight \cup {"getRecipeInformation"}
          /\ UNCHANGED <<recipeInfo, result, response, viaFallback>>
     ELSE /\ Continue(0, JSNull, recipeInfo, calls, inflight)
          /\ UNCHANGED recipeInfo

\* A POST arrives: the POST handler has no ai route and answers with its
\* final 404 (the body of the model's requests is valid JSON of small size).
Post ==
  /\ pc = "start"
  /\ UNCHANGED elsewhere
  /\ request.method = "POST"
  /\ pc' = "done"
  /\ response' = ErrorResponse(404, <<"Not found">>)
  /\ UNCHANGED <<request, env, recipeInfo, fetched, result, calls, inflight, failed,
                 firstOk, firstValid, lastKind, lastText, viaFallback, reqNo, memo>>

\* What getRecipeInformation settles with: it rejects, resolves to nothing,
\* or resolves to a recipe.
FetchOutcomes(endpoint) ==
  {[threw |-> TRUE, recipe |-> NoRecipe], [threw |-> FALSE, recipe |-> NoRecipe]}
  \cup {[threw |-> FALSE, recipe |-> r] : r \in RecipesFor(endpoint)}

MissingNever(recipe) == FALSE
\* !recipeInfo
Missing(recipe) == ~recipe.found

\* getRecipeInformation settles: the 500 of the catch, the 404, or the chain
\* (the recipe store does not change between a request and its repetition).
RecipeFetched ==
  /\ pc = "awaitRecipe"
  /\ UNCHANGED elsewhere
  /\ "getRecipeInformation" \in inflight
  /\ UNCHANGED <<request, env, failed, firstOk, firstValid, lastKind, lastText,
                 reqNo, memo>>
  /\ \E o \in FetchOutcomes(request.endpoint) :
       /\ (memo.set /\ o.recipe.found) => o.recipe = memo.recipeInfo
       /\ fetched' = IF o.threw THEN "rejected"
                     ELSE IF o.recipe.found THEN "found" ELSE "missing"
       /\ IF o.threw
          THEN /\ pc' = "done"
               /\ response' = CaughtResponse(IF request.endpoint = "analysis"
                                              THEN <<"AI analysis failed">>
                                              ELSE <<"AI modification failed">>)
               /\ inflight' = inflight \ {"getRecipeInformation"}
               /\ UNCHANGED <<recipeInfo, result, calls, viaFallback>>
          ELSE IF Missing(o.recipe)
          THEN /\ pc' = "done"
               /\ response' = ErrorResponse(404, <<"Recipe not found">>)
               /\ inflight' = inflight \ {"getRecipeInformation"}
               /\ UNCHANGED <<recipeInfo, result, calls, viaFallback>>
          ELSE /\ recipeInfo' = o.recipe
               /\ Continue(0, JSNull, o.recipe, calls,
                           inflight \ {"getRecipeInformation"})

\* A provider call settles and the handler runs on to its next await.
ProviderResponds ==
  /\ pc = "awaitProvider"
  /\ UNCHANGED elsewhere
  /\ UNCHANGED <<request, env, recipeInfo, fetched, reqNo, memo>>
  /\ \E p \in inflight \cap Providers, outcome \in Outcomes(request) :
       LET data == AfterAttempt(request.endpoint, p, result, outcome)
           got == Extract(request.endpoint, p, outcome.text)
           direct == JSONParse(outcome.text)
       IN /\ lastKind' = outcome.kind
          /\ lastText' = outcome.text
          /\ failed' = IF Falsy(data) THEN failed \cup {p} ELSE failed
          /\ firstOk' = IF ~firstOk.set /\ outcome.kind = "text" /\ ~Falsy(got)
                        THEN [set |-> TRUE, provider |-> p, value |-> got]
                        ELSE firstOk
          /\ firstValid' = IF ~firstValid.set /\ outcome.kind = "text" /\ direct.ok
                               /\ Head(direct.val) = "{"
                            THEN [set |-> TRUE, provider |-> p, value |-> direct.val]
                            ELSE firstValid
          /\ Continue(ChainIndex(request.endpoint, p), data, recipeInfo,
                      calls, inflight \ {p})

\* searchRecipes settles: the 200 response, or the 500 of the catch.
SearchReturns ==
  /\ pc = "awaitSearch"
  /\ UNCHANGED elsewhere
  /\ "searchRecipes" \in inflight
  /\ UNCHANGED <<request, env, recipeInfo, fetched, result, calls, failed, firstOk,
                 firstValid, lastKind, lastText, viaFallback, reqNo, memo>>
  /\ pc' = "done"
  /\ inflight' = inflight \ {"searchRecipes"}
  /\ \E o \in SearchOutcomes :
       response' =
         IF o.threw
         THEN CaughtResponse(IF request.endpoint = "search"
                             THEN <<"AI search failed">>
                             ELSE <<"AI recommendations failed">>)
         ELSE [status |-> 200,
               body |-> IF request.endpoint = "search"
                        THEN SearchBody(request, result, o.hits)
                        ELSE RecommendationsBody(request, result, o.hits)]

\* The same request is sent again after it was answered from the fallback.
NewRequest ==
  /\ pc = "done"
  /\ UNCHANGED elsewhere
  /\ viaFallback
  /\ reqNo < MaxRequests
  /\ reqNo' = reqNo + 1
  /\ memo' = IF memo.set THEN memo
             ELSE [set |-> TRUE, recipeInfo |-> recipeInfo, result |-> result]
  /\ pc' = "start"
  /\ recipeInfo' = NoRecipe
  /\ fetched' = "none"
  /\ result' = JSNull
  /\ response' = NoResponse
  /\ calls' = <<>>
  /\ inflight' = {}
  /\ failed' = {}
  /\ firstOk' = NoFirstOk
  /\ firstValid' = NoFirstOk
  /\ lastKind' = "none"
  /\ lastText' = <<>>
  /\ viaFallback' = FALSE
  /\ UNCHANGED <<request, env>>

Next ==
  \/ Receive
  \/ RecipeFetched
  \/ ProviderResponds
  \/ SearchReturns
  \/ NewRequest

Spec == Init /\ [][Next]_vars

\* The requests and environments of the fair specification: for every
\* endpoint a request that passes validation and one that does not, with no
\* key, every key, one provider key, and only the key no provider uses.
LiveRequests ==
  {req \in Requests :
     \/ req.endpoint = "search" /\ req.query \in {<<"a", "b">>, Soup}
     \/ /\ req.endpoint = "recommendations"
        /\ req.query # <<WS>>
        /\ req.ingredients = Absent /\ req.diet = Absent /\ req.cuisine = Absent
     \/ req.endpoint = "analysis" /\ req.recipeId \in {Absent, <<"4", "2">>}
     \/ /\ req.endpoint = "modifications"
        /\ req.recipeId \in {<<"x">>, <<"4", "2">>}
        /\ req.type \in {<<"simplify">>, <<"scale">>}}
LiveEnvs ==
  {{}, EnvKeys, {"GOOGLE_GEMINI_API_KEY"}, {"HUGGING_FACE_INFERENCE_API_KEY"}}
LiveInit ==
  /\ Init
  /\ request \in LiveRequests
  /\ env \in LiveEnvs

\* Every outbound call settles and the handler runs on when it does; nothing
\* obliges a client to send the request again.
FairSpec ==
  /\ LiveInit
  /\ [][Next]_vars
  /\ WF_vars(Receive \/ RecipeFetched \/ ProviderResponds \/ SearchReturns)

\* Both methods: the requests of the fair specification sent as a GET, and
\* the POST requests.
AnyMethodInit ==
  /\ request \in LiveRequests \cup PostRequests
  /\ env \in LiveEnvs
  /\ Idle
  /\ CacheIdle /\ StoreIdle /\ UploaderIdle
AnyMethodNext ==
  \/ Next
  \/ Post
AnyMethodSpec == AnyMethodInit /\ [][AnyMethodNext]_vars

\* -------------------------------------------------------- cacheStorage.ts
\* No request to an ai route is in progress.
AiParked ==
  /\ request = NoParams @@ [endpoint |-> "search", method |-> "GET", body |-> NoBody]
  /\ env = {}
  /\ Idle

CACHE_EXPIRY_DAYS == 7
MAX_CACHE_SIZE_MB == 2
MAX_CACHE_SIZE_BYTES == MAX_CACHE_SIZE_MB * 1024 * 1024
\* "Leave 100KB buffer"
LruBufferKB == 100
\* The quota a browser gives the localStorage of an origin, in bytes.
StorageQuotaMB == 5
StorageQuotaBytes == StorageQuotaMB * 1024 * 1024
\* estimateSize(entry) of the entries that are saved, in bytes.
EntrySizes == {600000, 1000000, 2500000}
\* What the other keys of the origin hold, in bytes.
OtherUsage == {0, 4000000}
\* The days that pass between two observations of the clock, and the last day.
StepDays == 4
MaxNow == 8

Max(a, b) == IF a >= b THEN a ELSE b
isExpired(entry, t) == t > entry.expiry

RECURSIVE SumSizes(_, _)
SumSizes(ls, keys) ==
  IF keys = {} THEN 0
  ELSE LET k == CHOOSE x \in keys : TRUE IN ls[k].size + SumSizes(ls, keys \ {k})
\* The bytes of the values stored under the search-cache keys.
getTotalCacheSize(ls) == SumSizes(ls, {k \in SearchKeys : ls[k].present})

\* Every expired entry is removed.
cleanupExpiredEntries(ls, t) ==
  [k \in SearchKeys |-> IF ls[k].present /\ isExpired(ls[k], t) THEN NoEntry ELSE ls[k]]

\* The unexpired entries as entries.sort leaves them, oldest timestamp
\* first: two saves read different values of Date.now(), so the order of the
\* timestamps is the order in which the entries were written.
SortedByTimestamp(ls, t) ==
  SelectSeq(written, LAMBDA k : ls[k].present /\ ~isExpired(ls[k], t))

RECURSIVE RemoveOldest(_, _, _, _, _)
\* The loop of cleanupLRUEntries from entry i on.
RemoveOldest(ls, order, i, currentSize, targetSize) ==
  IF i > Len(order) \/ currentSize <= targetSize THEN ls
  ELSE RemoveOldest([ls EXCEPT ![order[i]] = NoEntry], order, i + 1,
                    currentSize - ls[order[i]].size, targetSize)
cleanupLRUEntries(ls, order, targetSize) ==
  RemoveOldest(ls, order, 1, SumSizes(ls, {order[i] : i \in DOMAIN order}), targetSize)

\* localStorage.setItem throws QuotaExceededError: the value does not fit.
QuotaExceeded(ls, k, entry) ==
  otherUsed + getTotalCacheSize([ls EXCEPT ![k] = NoEntry]) + entry.size
    > StorageQuotaBytes

\* The keys of used that are still stored, then k when it is stored: k is
\* the most recently used key.
Touch(used, ls, k) ==
  SelectSeq(used, LAMBDA x : x # k /\ ls[x].present)
    \o (IF ls[k].present THEN <<k>> ELSE <<>>)

saveSearchToLocalStorage(k, size) ==
  LET ls1 == cleanupExpiredEntries(localStorage, now)
      entry == [present |-> TRUE, size |-> size, timestamp |-> now,
                expiry |-> now + CACHE_EXPIRY_DAYS]
      currentSize == getTotalCacheSize(ls1)
      targetSize == MAX_CACHE_SIZE_BYTES - size - LruBufferKB * 1024
  IN
  LET ls2 == IF currentSize + size > MAX_CACHE_SIZE_BYTES
             THEN cleanupLRUEntries(ls1, SortedByTimestamp(ls1, now),
                                    Max(0, targetSize))
             ELSE ls1
      ls3 == cleanupExpiredEntries(ls2, now)
      ls4 == cleanupLRUEntries(ls3, SortedByTimestamp(ls3, now),
                               MAX_CACHE_SIZE_BYTES \div 2)
  IN
  IF ~QuotaExceeded(ls2, k, entry)
  THEN [stored |-> TRUE, ls |-> [ls2 EXCEPT ![k] = entry]]
  ELSE IF ~QuotaExceeded(ls4, k, entry)
  THEN [stored |-> TRUE, ls |-> [ls4 EXCEPT ![k] = entry]]
  ELSE [stored |-> FALSE, ls |-> ls4]

\* saveSearchToLocalStorage is called for a search term and page.
Save ==
  /\ \E k \in SearchKeys, size \in EntrySizes :
       LET saved == saveSearchToLocalStorage(k, size) IN
       /\ localStorage' = saved.ls
       /\ lastOp' = [op |-> "save", cacheKey |-> k]
       /\ recency' = Touch(recency, saved.ls, k)
       /\ written' = IF saved.stored THEN Touch(written, saved.ls, k)
                     ELSE SelectSeq(written, LAMBDA x : saved.ls[x].present)
  /\ UNCHANGED <<now, otherUsed, aiVars, storeVars, uploaderVars>>

\* getSearchFromLocalStorage: null for a missing entry, an expired entry is
\* removed, the data of any other entry is returned.
Read ==
  /\ \E k \in SearchKeys :
       /\ localStorage' =
            IF localStorage[k].present /\ isExpired(localStorage[k], now)
            THEN [localStorage EXCEPT ![k] = NoEntry]
            ELSE localStorage
       /\ lastOp' = [op |-> "read", cacheKey |-> k]
       /\ recency' = Touch(recency, localStorage', k)
       /\ written' = SelectSeq(written, LAMBDA x : localStorage'[x].present)
  /\ UNCHANGED <<now, otherUsed, aiVars, storeVars, uploaderVars>>

\* Time passes.
Tick ==
  /\ now + StepDays <= MaxNow
  /\ now' = now + StepDays
  /\ UNCHANGED <<localStorage, written, otherUsed, recency, lastOp, aiVars,
                 storeVars, uploaderVars>>

CacheInit ==
  /\ AiParked /\ StoreIdle /\ UploaderIdle
  /\ localStorage = [k \in SearchKeys |-> NoEntry]
  /\ now = 0
  /\ written = <<>>
  /\ otherUsed \in OtherUsage
  /\ recency = <<>>
  /\ lastOp = NoOp
CacheNext ==
  \/ Save
  \/ Read
  \/ Tick
CacheSpec == CacheInit /\ [][CacheNext]_vars

\* ----------------------------------------- POST, PUT, DELETE and the database
\* How many requests run against the database at the same time.
MaxProcs == 2
ProcIds == 1..MaxProcs
Users == {"u1", "u2"}
\* order is undefined in the body.
NoOrder == -1

\* The presets a request names: one of UPLOAD_PRESETS, and an id that
\* getPresetById does not find (maxFileSize 0 marks the missing preset).
getPresetById(id) ==
  IF id = "recipe_thumbnail"
  THEN [found |-> TRUE, allowedFormats |-> {"image/jpeg", "image/png", "image/webp"}, maxFileSize |-> 2]
  ELSE [found |-> FALSE, allowedFormats |-> {}, maxFileSize |-> 0]
\* The largest image /api/upload takes, in MB.
MaxUploadMB == 10
\* The images of the upload requests: the format of the data URL and the
\* decoded size in MB.
Images == [format : {"image/jpeg", "image/gif"}, sizeMB : {1, 4, 12}]
NoImage == [format |-> "none", sizeMB |-> 0]

\* An authenticated request: the route, the user requireAuth returns, the
\* resource of the path or body, and the handler's position and locals.
Req(op, userId, target, recipeId, order, image, presetId) ==
  [op |-> op, userId |-> userId, target |-> target, recipeId |-> recipeId,
   order |-> order, image |-> image, presetId |-> presetId,
   pc |-> "start", seen |-> 0, status |-> 0, returned |-> "nothing"]
StoreRequests ==
  {Req(op, u, "none", 7, NoOrder, NoImage, "none") :
     op \in {"POST favourite", "DELETE favourite"}, u \in Users}
  \cup {Req(op, u, "c1", 0, NoOrder, NoImage, "none") :
     op \in {"GET collection", "PUT collection", "DELETE collection"}, u \in Users}
  \cup {Req("POST items", "u1", "c1", r, o, NoImage, "none") :
     r \in {7, 8, 9}, o \in {NoOrder, 2}}
  \cup {Req("POST items", "u2", "c1", 8, NoOrder, NoImage, "none")}
  \cup {Req("DELETE items", u, "c1", 7, NoOrder, NoImage, "none") : u \in Users}
  \cup {Req("DELETE meal-plan", u, "m1", 0, NoOrder, NoImage, "none") : u \in Users}
  \cup {Req(op, u, "l1", 0, NoOrder, NoImage, "none") :
     op \in {"PUT shopping-list", "DELETE shopping-list"}, u \in Users}
  \cup {Req("POST upload", "u1", "none", 0, NoOrder, img, "recipe_thumbnail") :
     img \in Images}
  \cup {Req("POST upload", "u1", "none", 0, NoOrder, img, preset) :
     img \in {[format |-> "image/jpeg", sizeMB |-> 1]}, preset \in {"none", "missing"}}

\* A row with an owner (a meal-plan item's owner is its meal plan's).
Row(userId) == [exists |-> TRUE, userId |-> userId, version |-> 0]
Gone == [exists |-> FALSE, userId |-> "none", version |-> 0]
\* The database the requests start from: u1 owns collection c1 with one
\* item, meal-plan item m1 and shopping list l1.
Databases ==
  {[favourites |-> fav,
    collections |-> [c \in {"c1"} |-> Row("u1")],
    items |-> {[collectionId |-> "c1", recipeId |-> 7, order |-> 1, auto |-> TRUE]},
    mealItems |-> [m \in {"m1"} |-> Row("u1")],
    lists |-> [l \in {"l1"} |-> Row("u1")],
    hosted |-> {}] :
     fav \in {{}, {[userId |-> "u1", recipeId |-> 7, id |-> 0]}}}

\* The handler of request i moves to position pc with its local set.
Goto(i, pc0, seen0) ==
  procs' = [procs EXCEPT ![i].pc = pc0, ![i].seen = seen0]
\* The handler of request i returns.
Respond(i, status, returned) ==
  procs' = [procs EXCEPT ![i].pc = "done", ![i].status = status,
                         ![i].returned = returned]
At(i, ops, pc0) == procs[i].op \in ops /\ procs[i].pc = pc0
OwnsAny(row, userId) == row.exists
\* where: { id, userId }
Owns(row, userId) == row.exists /\ row.userId = userId

\* prisma.favouriteRecipes.findFirst({ where: { recipeId, userId } }) of
\* POST and DELETE /recipes/favourite, and what follows without a query.
FavouriteFind ==
  \E i \in ProcIds :
    /\ At(i, {"POST favourite", "DELETE favourite"}, "start")
    /\ LET found == {row \in db.favourites : /\ row.userId = procs[i].userId
                                              /\ row.recipeId = procs[i].recipeId}
       IN IF procs[i].op = "POST favourite"
          THEN IF found # {} THEN Respond(i, 409, "nothing") ELSE Goto(i, "create", 0)
          ELSE IF found # {} THEN Goto(i, "delete", (CHOOSE row \in found : TRUE).id)
               ELSE Respond(i, 204, "nothing")
    /\ UNCHANGED <<db, aiVars, cacheVars, uploaderVars>>

\* prisma.favouriteRecipes.create: the unique index on recipeId rejects a
\* second row of the recipe, and the error reaches the catch of POST.
FavouriteCreate ==
  \E i \in ProcIds :
    /\ At(i, {"POST favourite"}, "create")
    /\ IF \E row \in db.favourites : row.recipeId = procs[i].recipeId
       THEN Respond(i, 500, "nothing") /\ UNCHANGED db
       ELSE /\ db' = [db EXCEPT !.favourites =
                        @ \cup {[userId |-> procs[i].userId,
                                 recipeId |-> procs[i].recipeId, id |-> i]}]
            /\ Respond(i, 201, "nothing")
    /\ UNCHANGED <<aiVars, cacheVars, uploaderVars>>

\* prisma.favouriteRecipes.delete({ where: { id: existing.id } }): a row
\* that is gone makes it throw, and the error reaches the catch of DELETE.
FavouriteDelete ==
  \E i \in ProcIds :
    /\ At(i, {"DELETE favourite"}, "delete")
    /\ LET rows == {row \in db.favourites : row.id = procs[i].seen} IN
       IF rows # {}
       THEN db' = [db EXCEPT !.favourites = @ \ rows] /\ Respond(i, 204, "nothing")
       ELSE Respond(i, 500, "nothing") /\ UNCHANGED db
    /\ UNCHANGED <<aiVars, cacheVars, uploaderVars>>

\* GET /collections/[id]: findFirst({ where: { id, userId } }).
CollectionGet ==
  \E i \in ProcIds :
    /\ At(i, {"GET collection"}, "start")
    /\ IF Owns(db.collections[procs[i].target], procs[i].userId)
       THEN Respond(i, 200, db.collections[procs[i].target].userId)
       ELSE Respond(i, 404, "nothing")
    /\ UNCHANGED <<db, aiVars, cacheVars, uploaderVars>>

\* PUT /collections/[id]: updateMany({ where: { id, userId } }), 404 when
\* it counts no row.
CollectionUpdate ==
  \E i \in ProcIds :
    /\ At(i, {"PUT collection"}, "start")
    /\ IF Owns(db.collections[procs[i].target], procs[i].userId)
       THEN /\ db' = [db EXCEPT !.collections[procs[i].target].version = 1]
            /\ Goto(i, "findUnique", 0)
       ELSE Respond(i, 404, "nothing") /\ UNCHANGED db
    /\ UNCHANGED <<aiVars, cacheVars, uploaderVars>>

\* PUT /collections/[id]: findUnique({ where: { id } }) and the response;
\* updated! of a collection deleted meanwhile throws.
CollectionReread ==
  \E i \in ProcIds :
    /\ At(i, {"PUT collection"}, "findUnique")
    /\ IF db.collections[procs[i].target].exists
       THEN Respond(i, 200, db.collections[procs[i].target].userId)
       ELSE Respond(i, 500, "nothing")
    /\ UNCHANGED <<db, aiVars, cacheVars, uploaderVars>>

\* DELETE /collections/[id]: deleteMany({ where: { id, userId } }); the
\* items go with the collection (ON DELETE CASCADE).
CollectionDelete ==
  \E i \in ProcIds :
    /\ At(i, {"DELETE collection"}, "start")
    /\ IF Owns(db.collections[procs[i].target], procs[i].userId)
       THEN /\ db' = [db EXCEPT
                        !.collections[procs[i].target] = Gone,
                        !.items = {it \in @ : it.collectionId # procs[i].target}]
            /\ Respond(i, 204, "nothing")
       ELSE Respond(i, 404, "nothing") /\ UNCHANGED db
    /\ UNCHANGED <<aiVars, cacheVars, uploaderVars>>

\* POST and DELETE /collections/[id]/items: the collection is looked up
\* with the user; the body of the model's requests passes validation.
ItemsFindCollection ==
  \E i \in ProcIds :
    /\ At(i, {"POST items", "DELETE items"}, "start")
    /\ IF ~Owns(db.collections[procs[i].target], procs[i].userId)
       THEN Respond(i, 404, "nothing")
       ELSE IF procs[i].op = "POST items" THEN Goto(i, "maxOrder", 0)
       ELSE Goto(i, "deleteMany", 0)
    /\ UNCHANGED <<db, aiVars, cacheVars, uploaderVars>>

\* collectionItem.findFirst({ where: { collectionId }, orderBy: { order:
\* "desc" } }): maxOrder?.order ?? 0.
ItemsMaxOrder ==
  \E i \in ProcIds :
    /\ At(i, {"POST items"}, "maxOrder")
    /\ LET orders == {it.order : it \in {x \in db.items :
                                           x.collectionId = procs[i].target}}
       IN Goto(i, "create",
               IF orders = {} THEN 0 ELSE CHOOSE m \in orders : \A o \in orders : o <= m)
    /\ UNCHANGED <<db, aiVars, cacheVars, uploaderVars>>

\* collectionItem.create: it throws when the collection is gone (foreign
\* key) or holds the recipe already (unique index on collectionId, recipeId).
ItemsCreate ==
  \E i \in ProcIds :
    /\ At(i, {"POST items"}, "create")
    /\ IF \/ ~db.collections[procs[i].target].exists
          \/ \E it \in db.items : /\ it.collectionId = procs[i].target
                                   /\ it.recipeId = procs[i].recipeId
       THEN Respond(i, 500, "nothing") /\ UNCHANGED db
       ELSE /\ db' = [db EXCEPT !.items = @ \cup
                        {[collectionId |-> procs[i].target,
                          recipeId |-> procs[i].recipeId,
                          order |-> IF procs[i].order # NoOrder THEN procs[i].order
                                    ELSE procs[i].seen + 1,
                          auto |-> procs[i].order = NoOrder]}]
            /\ Respond(i, 201, procs[i].userId)
    /\ UNCHANGED <<aiVars, cacheVars, uploaderVars>>

\* collectionItem.deleteMany({ where: { collectionId, recipeId } }), 404
\* when it counts no row.
ItemsDelete ==
  \E i \in ProcIds :
    /\ At(i, {"DELETE items"}, "deleteMany")
    /\ LET mine == {it \in db.items : /\ it.collectionId = procs[i].target
                                       /\ it.recipeId = procs[i].recipeId}
       IN IF mine = {} THEN Respond(i, 404, "nothing") /\ UNCHANGED db
          ELSE db' = [db EXCEPT !.items = @ \ mine] /\ Respond(i, 204, "nothing")
    /\ UNCHANGED <<aiVars, cacheVars, uploaderVars>>

\* DELETE /meal-plan: mealPlanItem.findUnique with its meal plan;
\* DELETE and PUT /shopping-list: shoppingList.findFirst({ id, userId }).
OwnedFind ==
  \E i \in ProcIds :
    /\ At(i, {"DELETE meal-plan", "PUT shopping-list", "DELETE shopping-list"}, "start")
    /\ LET row == IF procs[i].op = "DELETE meal-plan"
                  THEN db.mealItems[procs[i].target] ELSE db.lists[procs[i].target]
       IN IF Owns(row, procs[i].userId) THEN Goto(i, "write", 0)
          ELSE Respond(i, 404, "nothing")
    /\ UNCHANGED <<db, aiVars, cacheVars, uploaderVars>>

\* mealPlanItem.delete, shoppingList.delete and shoppingList.update by id:
\* each throws when the row is gone.
OwnedWrite ==
  \E i \in ProcIds :
    /\ At(i, {"DELETE meal-plan", "PUT shopping-list", "DELETE shopping-list"}, "write")
    /\ CASE procs[i].op = "DELETE meal-plan" ->
              IF db.mealItems[procs[i].target].exists
              THEN /\ db' = [db EXCEPT !.mealItems[procs[i].target] = Gone]
                   /\ Respond(i, 204, "nothing")
              ELSE Respond(i, 500, "nothing") /\ UNCHANGED db
         [] procs[i].op = "DELETE shopping-list" ->
              IF db.lists[procs[i].target].exists
              THEN /\ db' = [db EXCEPT !.lists[procs[i].target] = Gone]
                   /\ Respond(i, 204, "nothing")
              ELSE Respond(i, 500, "nothing") /\ UNCHANGED db
         [] OTHER ->
              IF db.lists[procs[i].target].exists
              THEN /\ db' = [db EXCEPT !.lists[procs[i].target].version = 1]
                   /\ Respond(i, 200, db.lists[procs[i].target].userId)
              ELSE Respond(i, 500, "nothing") /\ UNCHANGED db
    /\ UNCHANGED <<aiVars, cacheVars, uploaderVars>>

\* The preset's limits the handler tests before it uploads.
PresetAccepts(preset, image) == image.sizeMB <= preset.maxFileSize
\* validateFileAgainstPreset: the type, then the size.
validateFileAgainstPreset(image, preset) ==
  image.format \in preset.allowedFormats /\ image.sizeMB <= preset.maxFileSize

\* POST /upload up to cloudinary.uploader.upload: the 10 MB limit, the
\* preset lookup, the preset's limits; then the image goes to the host.
Upload ==
  \E i \in ProcIds :
    /\ At(i, {"POST upload"}, "start")
    /\ LET image == procs[i].image
           preset == getPresetById(procs[i].presetId)
       IN IF \/ image.sizeMB > MaxUploadMB
             \/ procs[i].presetId # "none" /\ ~preset.found
             \/ procs[i].presetId # "none" /\ ~PresetAccepts(preset, image)
          THEN Respond(i, 400, "nothing") /\ UNCHANGED db
          ELSE /\ db' = [db EXCEPT !.hosted = @ \cup
                           {[image |-> image, presetId |-> procs[i].presetId]}]
               /\ Goto(i, "uploading", 0)
    /\ UNCHANGED <<aiVars, cacheVars, uploaderVars>>

\* cloudinary.uploader.upload settles: the 200 response, or the 500 of the
\* catch when it rejects.
Uploaded ==
  \E i \in ProcIds, status \in {200, 500} :
    /\ At(i, {"POST upload"}, "uploading")
    /\ Respond(i, status, "nothing")
    /\ UNCHANGED <<db, aiVars, cacheVars, uploaderVars>>

StoreInit ==
  /\ AiParked /\ CacheIdle /\ UploaderIdle
  /\ db \in Databases
  /\ procs \in [ProcIds -> StoreRequests]
StoreNext ==
  \/ FavouriteFind
  \/ FavouriteCreate
  \/ FavouriteDelete
  \/ CollectionGet
  \/ CollectionUpdate
  \/ CollectionReread
  \/ CollectionDelete
  \/ ItemsFindCollection
  \/ ItemsMaxOrder
  \/ ItemsCreate
  \/ ItemsDelete
  \/ OwnedFind
  \/ OwnedWrite
  \/ Upload
  \/ Uploaded
StoreSpec == StoreInit /\ [][StoreNext]_vars

\* ImageUploader, mounted with presetId "recipe_thumbnail". A preview is
\* named by the file it was read from; readers holds the files whose
\* FileReader has not fired onloadend yet.
UploaderPresetId == "recipe_thumbnail"
\* The files the user can pick or drop, with type and size in MB.
FileInfo(f) ==
  CASE f = "a.jpg" -> [format |-> "image/jpeg", sizeMB |-> 1]
    [] f = "b.png" -> [format |-> "image/png", sizeMB |-> 1]
    [] f = "c.webp" -> [format |-> "image/webp", sizeMB |-> 2]
    [] f = "d.gif" -> [format |-> "image/gif", sizeMB |-> 1]
    [] OTHER -> [format |-> "image/jpeg", sizeMB |-> 4]
Files == {"a.jpg", "b.png", "c.webp", "d.gif", "e.jpg"}

\* handleFileSelect, from the file input's change or from a drop on the
\* card: a file the preset rejects changes nothing; an accepted one
\* becomes the file and a FileReader starts on it.
handleFileSelect ==
  \E selectedFile \in Files :
    /\ IF validateFileAgainstPreset(FileInfo(selectedFile),
                                    getPresetById(UploaderPresetId))
       THEN /\ file' = selectedFile
            /\ readers' = readers \cup {selectedFile}
       ELSE UNCHANGED <<file, readers>>
    /\ UNCHANGED <<preview, uploading, aiVars, cacheVars, storeVars>>

\* reader.onloadend: setPreview(reader.result), the data URL of the file
\* read, or null when the read failed.
onloadend ==
  \E f \in readers, ended \in {"read", "failed"} :
    /\ readers' = readers \ {f}
    /\ preview' = IF ended = "read" THEN f ELSE NoFile
    /\ UNCHANGED <<file, uploading, aiVars, cacheVars, storeVars>>

\* handleRemove, of the two buttons rendered with the preview.
handleRemove ==
  /\ preview # NoFile
  /\ file' = NoFile
  /\ preview' = NoFile
  /\ UNCHANGED <<readers, uploading, aiVars, cacheVars, storeVars>>

\* handleUpload, of the button rendered with the preview and disabled
\* while an upload is pending: uploadImage.mutate of the file.
handleUpload ==
  /\ preview # NoFile
  /\ uploading = NoFile
  /\ file # NoFile
  /\ uploading' = file
  /\ UNCHANGED <<file, preview, readers, aiVars, cacheVars, storeVars>>

\* The mutation settles: onSuccess clears file and preview, an error
\* leaves them.
UploadSettles ==
  \E outcome \in {"success", "error"} :
    /\ uploading # NoFile
    /\ uploading' = NoFile
    /\ IF outcome = "success"
       THEN file' = NoFile /\ preview' = NoFile
       ELSE UNCHANGED <<file, preview>>
    /\ UNCHANGED <<readers, aiVars, cacheVars, storeVars>>

UploaderInit == AiParked /\ CacheIdle /\ StoreIdle /\ UploaderIdle
UploaderNext ==
  \/ handleFileSelect
  \/ onloadend
  \/ handleRemove
  \/ handleUpload
  \/ UploadSettles
UploaderSpec == UploaderInit /\ [][UploaderNext]_vars

\* ------------------------------------------------------------- properties
\* The provider calls of the request being served, in the order issued.
ProviderCalls == SelectSeq(calls, LAMBDA c : c \in Providers)
LastProviderCall == ProviderCalls[Len(ProviderCalls)]
\* The configured priority: Claude, then GPT, then Gemini, then Groq.
Priority == [p \in Providers |->
  CASE p = "claude" -> 1 [] p = "gpt" -> 2 [] p = "gemini" -> 3 [] p = "groq" -> 4]
\* The providers of an endpoint's chain that hold a credential.
Configured ==
  {p \in Providers :
     /\ KeyOf(p) \in env
     /\ request.endpoint \in {"analysis", "modifications"} => p # "groq"}
ChainOver == pc \in {"awaitSearch", "done"} /\ ProviderCalls # <<>>

\* C1: if provider k is the first to answer 2xx with text that is valid JSON
\* (an object), the result of the chain is the object of provider k's text.
C1_FirstValidWins ==
  (ChainOver /\ firstValid.set) => result = firstValid.value

\* The same for the texts the handler's own extraction accepts: the result is
\* the value extracted from the first such answer.
FirstExtractedWins ==
  firstOk.set => (ChainOver /\ result = firstOk.value)

\* C2: once a provider has answered 2xx with text that is valid JSON (an
\* object), no later provider of the chain is called in that request.
C2_StopsOnFirstValid ==
  firstValid.set =>
    /\ LastProviderCall = firstValid.provider
    /\ inflight \cap Providers = {}

\* The same for the texts the handler's own extraction accepts.
StopsOnFirstExtracted ==
  firstOk.set =>
    /\ LastProviderCall = firstOk.provider
    /\ inflight \cap Providers = {}

\* C3: provider attempts follow the fixed priority, and a provider is
\* attempted only after every configured provider of higher priority was
\* attempted and failed in the same request.
C3_StrictPriorityOrder ==
  \A i \in 1..Len(ProviderCalls) :
    LET p == ProviderCalls[i] IN
    /\ \A j \in 1..(i - 1) : Priority[ProviderCalls[j]] < Priority[p]
    /\ \A q \in Configured :
         Priority[q] < Priority[p] =>
           /\ q \in failed
           /\ \E j \in 1..(i - 1) : ProviderCalls[j] = q
C3_Witness ==
  /\ ProviderCalls = <<"claude", "gpt", "gemini", "groq">>
  /\ pc = "awaitProvider"

\* C4: a request never has more than one outbound call in flight, and the
\* call in flight is the one issued last.
C4_OneCallInFlight ==
  /\ Cardinality(inflight) <= 1
  /\ \A p \in inflight \cap Providers : p = LastProviderCall
C4_Witness ==
  /\ inflight = {"gemini"}
  /\ {"claude", "gpt"} \subseteq failed

\* C5: every provider is called at most once in a request, so a request
\* makes at most four provider calls on ai/search and ai/recommendations and
\* at most three on ai/analysis and ai/modifications.
C5_AtMostOnceEach ==
  /\ \A p \in Providers :
       Cardinality({i \in 1..Len(calls) : calls[i] = p}) <= 1
  /\ Len(ProviderCalls) <=
       (IF request.endpoint \in {"search", "recommendations"} THEN 4 ELSE 3)
C5_Witness ==
  /\ request.endpoint = "modifications"
  /\ Len(ProviderCalls) = 3
  /\ pc = "done"
  /\ viaFallback

\* C6: when a provider attempt ends in a status outside 2xx, a thrown error
\* or a failed extraction and a configured provider of lower priority
\* remains, that provider is called next in the same request, whatever the
\* kind of the failure.
C6_FailureAdvances ==
  [][pc = "awaitProvider" =>
       LET p == CHOOSE x \in inflight \cap Providers : TRUE
           ended == \/ lastKind' \in {"throw", "non2xx", "badbody"}
                    \/ lastKind' = "text" /\ p \in failed'
           lower == {q \in Configured : Priority[q] > Priority[p]}
       IN (ended /\ lower # {}) =>
            LET q == CHOOSE x \in lower : \A y \in lower : Priority[x] <= Priority[y]
            IN /\ calls' = Append(calls, q)
               /\ inflight' = {q}
               /\ pc' = "awaitProvider"
               /\ response' = NoResponse]_vars
C6_Witness ==
  /\ lastKind = "text"
  /\ failed = {"claude"}
  /\ inflight = {"gpt"}

\* Every configured provider of the chain was attempted and failed.
Exhausted ==
  /\ pc = "done"
  /\ ProviderCalls # <<>>
  /\ Configured \subseteq failed
\* The 200 response that carries the fallback result.
FallbackResponse(hits) ==
  LET fb == Fallback(request, recipeInfo) IN
  [status |-> 200,
   body |-> CASE request.endpoint = "search" -> SearchBody(request, fb, hits)
              [] request.endpoint = "recommendations" ->
                   RecommendationsBody(request, fb, hits)
              [] OTHER -> fb]

\* C7 as stated: when every configured provider fails, the caller receives
\* 200 with exactly the fallback result, never an error.
C7_AlwaysFallback200 ==
  Exhausted =>
    /\ result = Fallback(request, recipeInfo)
    /\ \E o \in SearchOutcomes : ~o.threw /\ response = FallbackResponse(o.hits)

\* C7 amended: when every configured provider fails, the result is exactly
\* the fallback result and the caller receives 200 with it, unless the
\* recipe search of ai/search or ai/recommendations that follows throws,
\* which the handler answers with 500.
C7_FallbackUnlessSearchThrows ==
  Exhausted =>
    /\ result = Fallback(request, recipeInfo)
    /\ \/ \E o \in SearchOutcomes : ~o.threw /\ response = FallbackResponse(o.hits)
       \/ /\ request.endpoint = "search"
          /\ response = CaughtResponse(<<"AI search failed">>)
       \/ /\ request.endpoint = "recommendations"
          /\ response = CaughtResponse(<<"AI recommendations failed">>)
C7_Witness ==
  /\ Exhausted
  /\ request.endpoint = "search"
  /\ failed = Providers
  /\ response.status = 200

ProviderPathKeys ==
  LET o == Canon(SchemaObject(request), 1, FALSE) IN
  CASE request.endpoint = "search" -> TopKeys(SearchBody(request, o, <<>>))
    [] request.endpoint = "recommendations" ->
         TopKeys(RecommendationsBody(request, o, <<>>))
    [] OTHER -> TopKeys(o)

\* C9: a success response has the same top-level keys whether its result
\* comes from a provider or from the fallback.
C9_SameTopLevelKeys ==
  (pc = "done" /\ response.status = 200 /\ viaFallback) =>
    TopKeys(response.body) = ProviderPathKeys

\* C10 as stated: without any provider credential the request ends with 500
\* and makes no outbound call.
C10_NoKeysAlways500 ==
  (env = {} /\ pc = "done") => (response.status = 500 /\ calls = <<>>)

\* C10 amended: without any provider credential the request makes no
\* outbound call, neither a provider call nor a recipe fetch, and ends with
\* 500 when its parameters are valid (with 400 when they are not).
C10_NoKeysNoCalls ==
  env = {} =>
    /\ calls = <<>>
    /\ inflight = {}
    /\ pc \in {"start", "done"}
    /\ pc = "done" =>
         response.status = (IF ParamError(request) = <<>> THEN 500 ELSE 400)
C10_Witness ==
  /\ env = {}
  /\ pc = "done"
  /\ request.endpoint = "analysis"
  /\ response = ErrorResponse(500, <<"No AI API keys configured">>)

\* A recipe identifier: a non-empty string of decimal digits.
ValidRecipeId(s) ==
  /\ s # Absent
  /\ s # <<>>
  /\ \A k \in 1..Len(s) : s[k] \in Digits
\* A required parameter of the request is missing or invalid.
RequiredParamInvalid ==
  CASE request.endpoint = "search" ->
         request.query = Absent \/ Len(Trim(request.query)) < 3
    [] request.endpoint = "recommendations" ->
         /\ request.query = Absent \/ Trim(request.query) = <<>>
         /\ request.ingredients = Absent \/ Trim(request.ingredients) = <<>>
    [] request.endpoint = "analysis" -> ~ValidRecipeId(request.recipeId)
    [] request.endpoint = "modifications" ->
         \/ ~ValidRecipeId(request.recipeId)
         \/ request.type \notin {<<"dietary">>, <<"simplify">>}

\* C11: a request whose required parameter is missing or invalid (query
\* shorter than 3 characters after trimming, neither query nor ingredients,
\* a recipeId that is absent or not a recipe identifier, a type other than
\* dietary or simplify) is answered 400.
C11_InvalidParams400 ==
  (pc = "done" /\ RequiredParamInvalid) => response.status = 400

\* C12: on ai/analysis and ai/modifications a recipe that cannot be found is
\* answered 404 and ends the request: no provider is called and no fallback
\* result is built.
C12_NotFoundIsFatal ==
  fetched = "missing" =>
    /\ pc = "done"
    /\ response = ErrorResponse(404, <<"Recipe not found">>)
    /\ ProviderCalls = <<>>
    /\ inflight = {}
    /\ result = JSNull
    /\ ~viaFallback
C12_Witness ==
  /\ fetched = "missing"
  /\ request.endpoint = "modifications"
  /\ response.status = 404

\* The provider whose call completed last.
LastCompleted ==
  IF inflight \cap Providers = {} THEN LastProviderCall
  ELSE ProviderCalls[Len(ProviderCalls) - 1]
\* Extraction in the order direct parse, interior of a json code fence,
\* greedy brace span, each tried only when the earlier ones failed; null
\* when all three fail.
OrderedExtract(text) ==
  LET direct == JSONParse(text)
      f == FenceMatch(text)
      interior == JSONParse(f.g1)
      b == BraceMatch(text)
      span == JSONParse(b.m0)
  IN IF direct.ok THEN direct.val
     ELSE IF f.matched /\ interior.ok THEN interior.val
     ELSE IF b.matched /\ span.ok THEN span.val
     ELSE JSNull

\* C13: every provider attempt that returns text extracts what the order
\* direct parse, fence interior, brace span yields, and counts as a parse
\* failure only when all three fail.
C13_ExtractionOrder ==
  lastKind = "text" =>
    IF Falsy(OrderedExtract(lastText))
    THEN LastCompleted \in failed
    ELSE /\ LastCompleted \notin failed
         /\ result = OrderedExtract(lastText)

\* The text is exactly JSON.stringify(O) for an object O.
StringifiedObject(text) ==
  /\ JSONParse(text).ok
  /\ JSONParse(text).val = text
  /\ Head(text) = "{"

\* C14: when a provider's text is exactly JSON.stringify(O) for an object O,
\* whatever its strings contain, the attempt succeeds and the value
\* extracted is O.
C14_RoundTrip ==
  (lastKind = "text" /\ StringifiedObject(lastText)) =>
    /\ LastCompleted \notin failed
    /\ result = lastText

\* The object a json code fence wraps, when the text is such a fence around
\* a valid object and nothing else; <<>> otherwise.
FencedObject(text) ==
  LET n == Len(text)
      inner == SubSeq(text, 3, n - 2)
  IN IF /\ n > 4
        /\ text[1] = FenceOpen /\ text[2] = WS
        /\ text[n - 1] = WS /\ text[n] = FenceClose
        /\ JSONParse(inner).ok
        /\ Head(JSONParse(inner).val) = "{"
     THEN JSONParse(inner).val
     ELSE <<>>

\* C15: when a provider's text is a json code fence wrapping a valid object,
\* the attempt succeeds and the value extracted is that object, for every
\* provider of every chain.
C15_FencedObject ==
  (lastKind = "text" /\ FencedObject(lastText) # <<>>) =>
    /\ LastCompleted \notin failed
    /\ result = FencedObject(lastText)

\* The request carries the parameter with a value.
Supplied(s) == s # Absent /\ s # <<>>
OnlyQuery ==
  /\ request.endpoint = "recommendations"
  /\ Supplied(request.query) /\ Trim(request.query) # <<>>
  /\ \A s \in {request.ingredients, request.diet, request.cuisine,
               request.maxTime, request.excludeIngredients} : s = Absent
\* searchTerm and number 10, then each optional filter the request supplied.
ParamsWithTerm(term) ==
  LET opt(key, s) == IF Supplied(s) THEN <<",", key>> \o Str(s) ELSE <<>>
  IN <<"{", "searchTerm:">> \o Str(term) \o <<",", "number:", "10">>
       \o opt("diet:", request.diet)
       \o opt("cuisine:", request.cuisine)
       \o (IF Supplied(request.maxTime)
           THEN <<",", "maxReadyTime:", ParseInt(request.maxTime)>> ELSE <<>>)
       \o opt("includeIngredients:", request.ingredients)
       \o opt("excludeIngredients:", request.excludeIngredients)
       \o <<"}">>

\* C16 as stated: with no provider configured a recommendation request that
\* carries only a query gets the parameters {searchTerm: query, number: 10},
\* and every fallback is the trimmed query, number 10 and the filters
\* supplied.
C16_UnconfiguredFallbackParams ==
  /\ (env = {} /\ OnlyQuery /\ pc = "done") =>
       result = <<"{", "searchTerm:">> \o Str(Trim(request.query))
                  \o <<",", "number:", "10", "}">>
  /\ (request.endpoint = "recommendations" /\ viaFallback) =>
       result = ParamsWithTerm(Trim(OrElse(request.query, <<>>)))

\* C16 amended: when every attempted provider failed, a recommendation
\* request that carries only a query gets {searchTerm: trimmed query,
\* number: 10} without diet or cuisine; every fallback is number 10, the
\* filters supplied, and as searchTerm the trimmed query or, when that is
\* blank, the trimmed ingredients. With no provider configured the request
\* is answered 500 and no parameters are built.
C16_FallbackParams ==
  /\ (OnlyQuery /\ viaFallback) =>
       /\ result = <<"{", "searchTerm:">> \o Str(Trim(request.query))
                     \o <<",", "number:", "10", "}">>
       /\ TopKeys(result) \cap {"diet:", "cuisine:"} = {}
  /\ (request.endpoint = "recommendations" /\ viaFallback) =>
       result = ParamsWithTerm(IF Trim(OrElse(request.query, <<>>)) # <<>>
                               THEN Trim(request.query)
                               ELSE Trim(request.ingredients))
  /\ (request.endpoint = "recommendations" /\ env = {} /\ pc = "done"
        /\ ParamError(request) = <<>>) =>
       (response.status = 500 /\ result = JSNull)
C16_Witness ==
  /\ OnlyQuery
  /\ request.query = <<WS, "quick vegan dinner">>
  /\ viaFallback
  /\ pc = "done"
  /\ response.status = 200

\* sub occurs in seq as a run of consecutive tokens.
Contains(seq, sub) ==
  \E i \in 1..(Len(seq) - Len(sub) + 1) : SubSeq(seq, i, i + Len(sub) - 1) = sub
MediumEntry(a) ==
  <<"{", "allergen:", QUOTE, a, QUOTE, ",", "severity:", QUOTE, "medium", QUOTE, "}">>
AnalysisFallback ==
  /\ request.endpoint = "analysis"
  /\ viaFallback
  /\ pc = "done"

\* C17: the analysis fallback has a gluten entry exactly when the recipe is
\* not gluten-free and a dairy entry exactly when it is not dairy-free, each
\* of severity medium and no other entry, and level advanced exactly when
\* readyInMinutes is greater than 60.
C17_RuleTable ==
  AnalysisFallback =>
    /\ Contains(result, MediumEntry("gluten")) <=> ~recipeInfo.glutenFree
    /\ Contains(result, MediumEntry("dairy")) <=> ~recipeInfo.dairyFree
    /\ Cardinality({i \in 1..Len(result) : result[i] = "allergen:"}) =
         (IF recipeInfo.glutenFree THEN 0 ELSE 1)
         + (IF recipeInfo.dairyFree THEN 0 ELSE 1)
    /\ Contains(result, <<"cookingDifficulty:", "{", "level:", QUOTE, "advanced", QUOTE>>)
         <=> recipeInfo.readyInMinutes > 60
    /\ response = [status |-> 200, body |-> result]
C17_Witness ==
  /\ AnalysisFallback
  /\ ~recipeInfo.glutenFree
  /\ ~recipeInfo.dairyFree
  /\ recipeInfo.readyInMinutes = 75
  /\ Contains(result, MediumEntry("gluten") \o <<",">> \o MediumEntry("dairy"))

C19_EventuallyOneResponse ==
  /\ (pc # "done") ~> (pc = "done" /\ response.status # 0)
  /\ [](inflight # {} => (pc # "done" /\ response = NoResponse))
  /\ [][(response.status # 0 /\ reqNo' = reqNo) => response' = response]_vars
  /\ [][(\E p \in inflight \cap Providers : p \in inflight') =>
          (calls' = calls /\ response' = response)]_vars
C19_Witness ==
  /\ pc = "done"
  /\ response.status = 200
  /\ request.endpoint = "recommendations"
  /\ Len(ProviderCalls) = 4
  /\ inflight = {}

\* C20: the orchestrated endpoints take their input from a GET's query
\* parameters or from a POST's JSON body: a POST is not answered "Not found",
\* and a POST to ai/recommendations whose merged parameters (the body's over
\* the query string's) pass validation, with a provider configured, is served
\* by the provider chain and answered with the recommendation body.
C20_PostIsOrchestrated ==
  (pc = "done" /\ request.method = "POST") =>
    /\ response # ErrorResponse(404, <<"Not found">>)
    /\ (/\ request.endpoint = "recommendations"
        /\ ParamError(BodyOverQuery(request)) = <<>>
        /\ ~KeysMissing("recommendations", env)) =>
          (calls # <<>> /\ response.status \in {200, 500})

\* The object JSON.parse makes of the "{}" that stands in for missing text.
EmptyObject == <<"{", "}">>

\* C24: a 2xx provider response without generated text is a failed attempt:
\* the provider is among the failed ones, and the empty object is never the
\* result of the chain.
C24_NoTextIsFailure ==
  /\ lastKind = "nocontent" => LastCompleted \in failed
  /\ result # EmptyObject

\* C25: on ai/analysis and ai/modifications a request that passed the
\* configuration check and ends with the fallback result has made at least
\* one provider call.
C25_AcceptedKeyIsAttempted ==
  (/\ request.endpoint \in {"analysis", "modifications"}
   /\ pc = "done"
   /\ viaFallback) => ProviderCalls # <<>>

\* C21: after every save the search-cache entries in localStorage hold at
\* most MAX_CACHE_SIZE_MB megabytes in total.
C21_CacheWithinLimit ==
  getTotalCacheSize(localStorage) <= MAX_CACHE_SIZE_BYTES

\* The place of a key in the order of use.
UsePosition(k) == CHOOSE i \in 1..Len(recency) : recency[i] = k
\* A save removes the unexpired entry of a key other than the saved one.
Evicted(k) ==
  /\ k # lastOp'.cacheKey
  /\ localStorage[k].present /\ ~isExpired(localStorage[k], now)
  /\ ~localStorage'[k].present
\* A step keeps the unexpired entry of a key other than the saved one.
Kept(k) ==
  /\ k # lastOp'.cacheKey
  /\ localStorage[k].present /\ ~isExpired(localStorage[k], now)
  /\ localStorage'[k].present

\* C22: no step evicts an entry while it keeps an unexpired entry that was
\* used (read or written) less recently.
C22_EvictsLeastRecentlyUsed ==
  [][\A k, j \in SearchKeys :
       (Evicted(k) /\ Kept(j)) => UsePosition(k) < UsePosition(j)]_vars

\* C23: with a presetId, only an image that satisfies the preset's allowed
\* types and its maximum size is passed to the image host.
C23_PresetLimitsEnforced ==
  \A h \in db.hosted :
    h.presetId # "none" =>
      validateFileAgainstPreset(h.image, getPresetById(h.presetId))

\* The POST /recipes/favourite requests of one user for one recipe.
SameFavourite(i, j) ==
  /\ procs[i].op = "POST favourite" /\ procs[j].op = "POST favourite"
  /\ procs[i].userId = procs[j].userId
  /\ procs[i].recipeId = procs[j].recipeId
\* C26: of the concurrent POST /recipes/favourite requests of one user for
\* one recipe, one is answered 201 and every other one 409.
C26_OneCreatedOthersConflict ==
  \A i, j \in ProcIds :
    (i # j /\ SameFavourite(i, j)
       /\ procs[i].pc = "done" /\ procs[j].pc = "done") =>
      /\ {procs[i].status, procs[j].status} \subseteq {201, 409}
      /\ ~(procs[i].status = 201 /\ procs[j].status = 201)

\* The operations on a collection, its items, a meal-plan item or a
\* shopping list that name the row by id.
OwnedOps ==
  {"GET collection", "PUT collection", "DELETE collection", "POST items",
   "DELETE items", "DELETE meal-plan", "PUT shopping-list", "DELETE shopping-list"}
\* The row the request names, as the database holds it.
TargetRow(r) ==
  IF r.op \in {"DELETE meal-plan"} THEN db.mealItems[r.target]
  ELSE IF r.op \in {"PUT shopping-list", "DELETE shopping-list"} THEN db.lists[r.target]
  ELSE db.collections[r.target]
\* C27: a step of a request for a row that is not the caller's changes no
\* data, and the request is answered 404 with none of the row's data.
C27_OthersDataUntouched ==
  [][\A i \in ProcIds :
       (/\ procs[i]' # procs[i]
        /\ procs[i].op \in OwnedOps
        /\ procs[i].pc = "start"
        /\ TargetRow(procs[i]).userId # procs[i].userId) =>
         /\ db' = db
         /\ procs[i]'.pc = "done"
         /\ procs[i]'.status = 404
         /\ procs[i]'.returned = "nothing"]_vars
\* A request of u2 for a row u1 still holds has been answered.
C27_Witness ==
  \E i \in ProcIds :
    /\ procs[i].op \in OwnedOps /\ procs[i].pc = "done"
    /\ procs[i].status = 404
    /\ TargetRow(procs[i]).exists
    /\ TargetRow(procs[i]).userId # procs[i].userId

\* C28: the orders given to items added without an explicit order are
\* pairwise distinct within a collection.
C28_AutoOrdersDistinct ==
  \A a, b \in db.items :
    (a # b /\ a.collectionId = b.collectionId /\ a.auto /\ b.auto) =>
      a.order # b.order

\* C30: a DELETE /recipes/favourite that has returned was answered 204.
C30_DeleteAlways204 ==
  \A i \in ProcIds :
    (procs[i].op = "DELETE favourite" /\ procs[i].pc = "done") =>
      procs[i].status = 204

\* C29: a shown preview was read from the file currently selected.
C29_PreviewOfCurrentFile ==
  preview # NoFile => (file # NoFile /\ preview = file)
====
